---- MODULE Spec2Model ----
(***************************************************************************)
(* The ingestion-and-indexing pipeline of simplified-jmdict-to-sql:        *)
(*   database/schema.py            DatabaseSchema (tables, FTS, triggers)  *)
(*   documentParssing/*.py         JMdictParser, Kanjidic2Parser           *)
(*   dataLoaders/dict_loaders.py   DictionaryLoader                        *)
(* The database is a record of tables (sets of rows).  db is what the      *)
(* loader's connection sees (uncommitted rows included), disk is what has  *)
(* been committed.                                                         *)
(***************************************************************************)
EXTENDS Integers, Sequences, FiniteSets, TLC

VARIABLES
    jm_file,     \* the JMdict JSON document given to load_jmdict
    kd_file,     \* the Kanjidic2 JSON document given to load_kanjidic
    batch_size,  \* parse_file's batch_size
    conn,        \* DictionaryLoader.conn is set (initialize_database ran)
    db,          \* the database as seen by the connection
    disk,        \* the committed database
    fk,          \* PRAGMA foreign_keys of the connection
    inTxn,       \* the connection has an open transaction
    pc,          \* where the loader is
    i,           \* parse_file's loop variable (offset of the current batch)
    tag_cache,   \* JMdictParser.tag_cache
    resolved,    \* history: every (tag, category, id) _get_tag_id returned
    twin_fts,    \* history: jmdict_gloss_fts as the after-insert trigger builds it
    prev_jm,     \* history: the committed database when the latest load_jmdict began
    runs,        \* history: outcome of every load_jmdict call so far
    loads,       \* number of loads started
    last,        \* the last operation that returned
    result,      \* how it returned
    writes,      \* number of single statements a client has run on the tables
    tag_call,    \* the latest call of _get_tag_id made on its own
    b_conn,      \* DatabaseGeneration: what DataLoader's connection sees
    b_disk,      \* DatabaseGeneration: the committed database
    b_runs,      \* DatabaseGeneration: outcome of every load so far
    handed       \* history: the batches the latest parse_file gave its batch routine

vars == <<jm_file, kd_file, batch_size, conn, db, disk, fk, inTxn, pc, i,
          tag_cache, resolved, twin_fts, prev_jm, runs, loads, last, result,
          writes, tag_call, b_conn, b_disk, b_runs, handed>>

\* what the loads of DictionaryLoader leave alone
notLoader == <<writes, tag_call, b_conn, b_disk, b_runs>>

(***************************************************************************)
(* Bounds of the model.                                                    *)
(***************************************************************************)
MaxWords == 2
MaxChars == 2
MaxBatch == 2
MaxLoads == 2
MaxWrites == 1
MaxLoadsB == 3
MaxParse == 3

(***************************************************************************)
(* Input documents.  A JSON object is a record; a key the object lacks is  *)
(* a field the record lacks.  A text is a sequence of words.               *)
(***************************************************************************)
Get(obj, key, default) ==
    IF key \in DOMAIN obj THEN obj[key] ELSE default

\* data.get('tags', {}): tag code and description, in document order
FileTags ==
    << <<"v1", "Ichidan verb">>, <<"uk", "usually kana">> >>

WordEat ==
    [id |-> "1",
     kanji |-> << [text |-> "taberu", common |-> TRUE] >>,
     sense |-> << [partOfSpeech |-> <<"v1">>,
                   gloss |-> << [lang |-> "eng", text |-> <<"to", "Eat">>] >>] >>]

\* no 'kanji' key; a part of speech the tags map does not list
WordSee ==
    [id |-> "2",
     sense |-> << [partOfSpeech |-> <<"v1", "exp">>,
                   gloss |-> << [lang |-> "eng", text |-> <<"to", "see">>],
                                [lang |-> "eng", text |-> <<"Look">>] >>] >>]

\* the second kanji writing lacks 'text'
WordBadKanji ==
    [id |-> "3",
     kanji |-> << [text |-> "miru", common |-> FALSE], [common |-> TRUE] >>,
     sense |-> << [partOfSpeech |-> <<"exp">>,
                   gloss |-> << [lang |-> "eng", text |-> <<"eat">>] >>] >>]

\* the word lacks 'id'
WordNoId ==
    [kanji |-> << [text |-> "nai"] >>,
     sense |-> << [gloss |-> << [lang |-> "eng", text |-> <<"none">>] >>] >>]

Words == {WordEat, WordSee, WordBadKanji, WordNoId}

CharSun ==
    [literal |-> "hi",
     readingMeaning |-> [groups |-> << [meanings |->
         << [lang |-> "en", value |-> <<"Sun">>],
            [lang |-> "en", value |-> <<"day">>] >>] >>]]

\* the second meaning lacks 'value'
CharBadMeaning ==
    [literal |-> "tsuki",
     readingMeaning |-> [groups |-> << [meanings |->
         << [lang |-> "en", value |-> <<"moon">>], [lang |-> "en"] >>] >>]]

\* the character lacks 'literal'
CharNoLiteral ==
    [readingMeaning |-> [groups |-> << >>]]

Characters == {CharSun, CharBadMeaning, CharNoLiteral}

\* a tags map that lists a part of speech _get_pos_tags does not know and a
\* field code
FileTagsFull ==
    << <<"v1", "Ichidan verb">>, <<"exp", "expression">>, <<"comp", "computing">> >>

\* an entry with every kind of child: a tagged kanji writing, kana writings
\* that apply to all kanji and to a listed one (listed twice), a sense with
\* repeated codes, explicit applicability and every tag list
WordFull ==
    [id |-> "1",
     kanji |-> << [text |-> "ka", common |-> TRUE, tags |-> <<"uk">>],
                  [text |-> "kb"] >>,
     kana |-> << [text |-> "na", common |-> TRUE, tags |-> <<"uk">>],
                 [text |-> "nb", appliesToKanji |-> <<"ka", "ka">>] >>,
     sense |-> << [partOfSpeech |-> <<"v1", "exp", "v1">>,
                   appliesToKanji |-> <<"ka">>,
                   appliesToKana |-> <<"*">>,
                   field |-> <<"comp">>, misc |-> <<"uk">>, dialect |-> <<"ksb">>,
                   info |-> <<"note">>,
                   gloss |-> << [lang |-> "eng", text |-> <<"to", "Eat">>],
                                [lang |-> "eng", text |-> <<"to", "Eat">>] >>,
                   languageSource |-> << [lang |-> "ger", wasei |-> TRUE] >>,
                   related |-> <<"miru">>, antonym |-> <<"nai">>],
                  [partOfSpeech |-> <<"exp">>,
                   appliesToKana |-> <<"nb", "na", "nb">>,
                   gloss |-> << [lang |-> "eng", text |-> <<"see">>] >>] >>]

\* no kanji writing; the kana applies to all (explicitly)
WordKanaOnly ==
    [id |-> "2",
     kana |-> << [text |-> "na", appliesToKanji |-> <<"*">>] >>,
     sense |-> << [partOfSpeech |-> <<"v1">>,
                   gloss |-> << [lang |-> "eng", text |-> <<"Look">>] >>] >>]

\* two kanji writings with one text; a kana that lists no kanji
WordTwin ==
    [id |-> "3",
     kanji |-> << [text |-> "ka", common |-> TRUE], [text |-> "ka"] >>,
     kana |-> << [text |-> "na"], [text |-> "nb", appliesToKanji |-> << >>] >>,
     sense |-> << [appliesToKanji |-> <<"*">>, appliesToKana |-> << >>,
                   gloss |-> << [lang |-> "eng", text |-> <<"day">>] >>] >>]

\* the kana lists a text that is no kanji writing of the entry
WordStray ==
    [id |-> "4",
     kanji |-> << [text |-> "ka"] >>,
     kana |-> << [text |-> "na", appliesToKanji |-> <<"zz">>] >>,
     sense |-> << [partOfSpeech |-> <<"adv">>,
                   gloss |-> << [lang |-> "eng", text |-> <<"none">>] >>] >>]

\* the gloss lacks 'text': the batch raises after the sense's codes were resolved
WordBadGloss ==
    [id |-> "5",
     kana |-> << [text |-> "nc"] >>,
     sense |-> << [partOfSpeech |-> <<"adv">>, misc |-> <<"arch">>,
                   gloss |-> << [lang |-> "eng"] >>] >>]

WordsFull == {WordFull, WordKanaOnly, WordTwin, WordStray, WordBadGloss}

\* the documents of at most n entries, no entry twice
SeqsUpTo(S, n) ==
    {s \in UNION {[1..k -> S] : k \in 0..n} :
        \A a, b \in DOMAIN s : a # b => s[a] # s[b]}

Min(a, b) == IF a < b THEN a ELSE b

MaxOf(S) == CHOOSE m \in S : \A x \in S : x <= m

\* faulty variant of the slice: no upper bound, the rest of the list
SliceToEnd(s, off, n) ==
    SubSeq(s, off + 1, Len(s))

\* words[i:i+batch_size] for the 0-based offset i
Slice(s, off, n) ==
    SubSeq(s, off + 1, Min(off + n, Len(s)))

\* int(word['id'])
ParseInt(s) ==
    CASE s = "1" -> 1 [] s = "2" -> 2 [] s = "3" -> 3 [] s = "4" -> 4 [] s = "5" -> 5

(***************************************************************************)
(* Schema: database/schema.py                                              *)
(***************************************************************************)
GlossTriggers == {"jmdict_gloss_ai", "jmdict_gloss_ad", "jmdict_gloss_au"}

MeaningsTriggers ==
    {"kanjidic_meanings_ai", "kanjidic_meanings_ad", "kanjidic_meanings_au"}

\* the tables of _create_jmdict_tables that hold the children of a sense
SenseTables ==
    {"jmdict_sense_pos", "jmdict_sense_applies_to_kanji",
     "jmdict_sense_applies_to_kana", "jmdict_sense_field", "jmdict_sense_misc",
     "jmdict_sense_dialect", "jmdict_sense_info", "jmdict_gloss",
     "jmdict_language_source", "jmdict_xrefs"}

JmTables ==
    {"tags", "jmdict_entries", "jmdict_kanji", "jmdict_kanji_tags", "jmdict_kana",
     "jmdict_kana_tags", "jmdict_kana_to_kanji", "jmdict_sense"} \cup SenseTables

BaseTables ==
    JmTables \cup {"kanjidic_characters", "kanjidic_meanings"}

FtsTables == {"jmdict_gloss_fts", "kanjidic_meanings_fts"}

\* a database file that does not exist yet: no table holds a row, no trigger
\* and no virtual table exists
NoDatabase ==
    [t \in BaseTables \cup FtsTables |-> {}]
       @@ [triggers |-> {}, virtual |-> {}]

\* INTEGER PRIMARY KEY: the rowid SQLite gives the next inserted row
NextId(rows) ==
    IF rows = {} THEN 1 ELSE MaxOf({r.id : r \in rows}) + 1

\* the unicode61 tokenizer folds case
Fold(w) ==
    CASE w = "Eat" -> "eat" [] w = "Look" -> "look" [] w = "Sun" -> "sun"
      [] OTHER -> w

Tokenize(text) ==
    {Fold(text[k]) : k \in DOMAIN text}

\* DROP TABLE IF EXISTS ..._fts; CREATE VIRTUAL TABLE ..._fts; CREATE TRIGGER IF NOT EXISTS
CreateIndexes(d) ==
    [d EXCEPT !.jmdict_gloss_fts = {},
              !.kanjidic_meanings_fts = {},
              !.virtual = FtsTables,
              !.triggers = @ \cup GlossTriggers \cup MeaningsTriggers]

\* CREATE TABLE IF NOT EXISTS leaves the rows of an existing table alone
CreateTables(d) ==
    CreateIndexes(d)

\* faulty variant of the trigger: the entry takes the sense's identifier
GlossAfterInsertSenseId(fts, new) ==
    fts \cup {[rowid |-> new.sense_id, tokens |-> Tokenize(new.text)]}

\* jmdict_gloss_ai: INSERT INTO jmdict_gloss_fts(rowid, text) VALUES (new.id, new.text)
GlossAfterInsert(fts, new) ==
    fts \cup {[rowid |-> new.id, tokens |-> Tokenize(new.text)]}

\* faulty variant of the trigger: the 'delete' command removes nothing
GlossAfterDeleteKeeping(fts, old) ==
    fts

\* jmdict_gloss_ad: INSERT INTO jmdict_gloss_fts(jmdict_gloss_fts, rowid, text)
\* VALUES('delete', old.id, old.text)
GlossAfterDelete(fts, old) ==
    {e \in fts : e.rowid # old.id}

\* jmdict_gloss_au: the 'delete' of the old row, then the insert of the new one
GlossAfterUpdate(fts, old, new) ==
    GlossAfterInsert(GlossAfterDelete(fts, old), new)

\* kanjidic_meanings_ai, kanjidic_meanings_ad, kanjidic_meanings_au
MeaningsAfterInsert(fts, new) ==
    fts \cup {[rowid |-> new.id, tokens |-> Tokenize(new.value)]}

MeaningsAfterDelete(fts, old) ==
    {e \in fts : e.rowid # old.id}

MeaningsAfterUpdate(fts, old, new) ==
    MeaningsAfterInsert(MeaningsAfterDelete(fts, old), new)

\* the 'delete' command of an external-content index is given a row the index
\* does not hold: SQLite then either fails the statement ("database disk
\* image is malformed") or carries on
DeleteOfUnindexed(fts, triggers, trigger, rows) ==
    /\ trigger \in triggers
    /\ \E r \in rows : \A e \in fts : e.rowid # r.id

\* faulty variant of the rebuild: the index is left as it stands
RebuildGlossSkipped(d) ==
    d

\* INSERT INTO jmdict_gloss_fts(jmdict_gloss_fts) VALUES("rebuild")
RebuildGloss(d) ==
    [d EXCEPT !.jmdict_gloss_fts =
        {[rowid |-> r.id, tokens |-> Tokenize(r.text)] : r \in d.jmdict_gloss}]

\* faulty variant of the rebuild: the words are indexed without case folding
RebuildMeaningsUnfolded(d) ==
    [d EXCEPT !.kanjidic_meanings_fts =
        {[rowid |-> r.id, tokens |-> {r.value[k] : k \in DOMAIN r.value}] :
            r \in d.kanjidic_meanings}]

\* INSERT INTO kanjidic_meanings_fts(kanjidic_meanings_fts) VALUES("rebuild")
RebuildMeanings(d) ==
    [d EXCEPT !.kanjidic_meanings_fts =
        {[rowid |-> r.id, tokens |-> Tokenize(r.value)] : r \in d.kanjidic_meanings}]

\* faulty variant of the rebuild: rows are added to the index, none removed
RebuildFtsIndexAdding(d) ==
    [d EXCEPT !.jmdict_gloss_fts = @ \cup
                  {[rowid |-> r.id, tokens |-> Tokenize(r.text)] : r \in d.jmdict_gloss},
              !.kanjidic_meanings_fts = @ \cup
                  {[rowid |-> r.id, tokens |-> Tokenize(r.value)] :
                      r \in d.kanjidic_meanings}]

RebuildFtsIndex(d) ==
    RebuildMeanings(RebuildGloss(d))

\* the rebuild command names a virtual table that does not exist:
\* sqlite3.OperationalError "no such table"
NoSuchTable(d, table) ==
    table \notin d.virtual

\* rebuild_fts_index when jmdict_gloss_fts exists: the rebuild of
\* kanjidic_meanings_fts is in a try ... except sqlite3.OperationalError: pass
RebuildExisting(d) ==
    IF NoSuchTable(d, "kanjidic_meanings_fts")
    THEN RebuildGloss(d)
    ELSE RebuildFtsIndex(d)

(***************************************************************************)
(* Tag resolver: documentParssing/jmdict_parser.py                         *)
(***************************************************************************)
\* _get_pos_tags
PosTags ==
    {"n", "v1", "v5", "adj-i", "adj-na", "adv", "prt", "conj", "pn", "int", "aux",
     "aux-v", "aux-adj", "n-adv", "n-suf", "n-pref", "vs", "vk", "vz"}

\* faulty variant: table tags without its UNIQUE(tag, category) constraint
NoUniqueConflict(rows, tag, category) ==
    FALSE

\* UNIQUE(tag, category) of table tags rejects a second row for the pair
TagsUniqueConflict(rows, tag, category) ==
    \E r \in rows : r.tag = tag /\ r.category = category

\* INSERT OR IGNORE INTO tags (tag, description, category)
InsertOrIgnoreTag(d, tag, description, category) ==
    IF TagsUniqueConflict(d.tags, tag, category) THEN d
    ELSE [d EXCEPT !.tags = @ \cup {[id |-> NextId(@), tag |-> tag,
                                     description |-> description,
                                     category |-> category]}]

RECURSIVE InsertFileTags(_, _)
InsertFileTags(d, tags) ==
    IF tags = << >> THEN d
    ELSE LET t == Head(tags)
         IN InsertFileTags(
                InsertOrIgnoreTag(d, t[1], t[2],
                                  IF t[1] \in PosTags THEN "pos" ELSE "misc"),
                Tail(tags))

\* SELECT id, tag, category FROM tags; tag_cache[(tag, category)] = tag_id
\* (rows come in rowid order, a later row overwrites an earlier one)
CacheAllTags(cache, rows) ==
    LET keys == {<<r.tag, r.category>> : r \in rows}
    IN [k \in DOMAIN cache \cup keys |->
           IF k \in keys
           THEN MaxOf({r.id : r \in {x \in rows : <<x.tag, x.category>> = k}})
           ELSE cache[k]]

\* faulty variant of the read: the identifier a new row would get
SelectTagIdNext(rows, tag, category) ==
    NextId(rows)

\* SELECT id FROM tags WHERE tag = ? AND category = ?; fetchone()
SelectTagId(rows, tag, category) ==
    LET hit == {r.id : r \in {x \in rows : x.tag = tag /\ x.category = category}}
    IN CHOOSE n \in hit : \A m \in hit : n <= m

\* faulty variant: a new tag is cached and returned but its row is not stored
GetTagIdUnstored(state, tag, category) ==
    LET key == <<tag, category>>
        n == IF key \in DOMAIN state.cache THEN state.cache[key]
             ELSE NextId(state.db.tags)
    IN [st |-> [state EXCEPT !.cache = (key :> n) @@ @,
                             !.resolved = @ \cup
                                 {[tag |-> tag, category |-> category, id |-> n]}],
        id |-> n, stmts |-> << >>]

\* _get_tag_id: state is the running state of a batch, the result is the
\* state after the call, the identifier returned and the statements executed
\* (the running state is bound once: st \in {state})
GetTagId(state, tag, category) ==
    LET key == <<tag, category>>
        ret(s, n, q) == [st |-> [s EXCEPT !.resolved = @ \cup
                                    {[tag |-> tag, category |-> category, id |-> n]}],
                         id |-> n, stmts |-> q]
    IN CHOOSE r \in
         {IF key \in DOMAIN st.cache
          THEN ret(st, st.cache[key], << >>)
          ELSE IF \E x \in st.db.tags : x.tag = tag /\ x.category = category
          THEN LET n == SelectTagId(st.db.tags, tag, category)
               IN ret([st EXCEPT !.cache = (key :> n) @@ @], n, <<"select">>)
          ELSE LET n == NextId(st.db.tags)
               IN ret([st EXCEPT
                         !.db.tags = @ \cup {[id |-> n, tag |-> tag,
                                              description |-> "NULL",
                                              category |-> category]},
                         !.cache = (key :> n) @@ @], n, <<"select", "insert">>)
            : st \in {state}} : TRUE

(***************************************************************************)
(* JMdictParser._process_word_batch                                        *)
(***************************************************************************)
\* faulty variant: only the first word of the batch gets its entry row
InsertEntriesFirstOnly(d, words) ==
    IF words = << >> THEN d
    ELSE [d EXCEPT !.jmdict_entries = @ \cup
            {[id |-> Head(words).id, entry_sequence |-> ParseInt(Head(words).id)]}]

\* executemany INSERT OR IGNORE INTO jmdict_entries (id, entry_sequence)
RECURSIVE InsertEntries(_, _)
InsertEntries(d, words) ==
    IF words = << >> THEN d
    ELSE LET w == Head(words)
             d1 == IF \E r \in d.jmdict_entries : r.id = w.id THEN d
                   ELSE [d EXCEPT !.jmdict_entries = @ \cup
                           {[id |-> w.id, entry_sequence |-> ParseInt(w.id)]}]
         IN InsertEntries(d1, Tail(words))

\* faulty variant: every writing is stored as not common
CommonFlagZero(writing) ==
    0

\* 1 if writing.get('common', False) else 0
CommonFlag(writing) ==
    IF Get(writing, "common", FALSE) THEN 1 ELSE 0

\* the running state of _process_word_batch: the database and the cache as
\* they stand, ok = FALSE once an exception has left the batch, and the lists
\* the batch collects for its executemany statements.  The operators below
\* bind the state they are handed once (st \in {state}).
BatchState(d, cache, res) ==
    [db |-> d, cache |-> cache, resolved |-> res, ok |-> TRUE,
     kanji_tag_data |-> << >>, kana_tag_data |-> << >>,
     kana_to_kanji_data |-> << >>, gloss_data |-> << >>]

\* for tag in writing.get('tags', []): tag_id = self._get_tag_id(tag, 'misc');
\* kanji_tag_data / kana_tag_data .append((writing_id, tag_id))
RECURSIVE WritingTags(_, _, _, _)
WritingTags(state, list, writing_id, codes) ==
    IF codes = << >> THEN state
    ELSE CHOOSE r \in
           {WritingTags([got.st EXCEPT ![list] = Append(@, <<writing_id, got.id>>)],
                        list, writing_id, Tail(codes))
              : got \in {GetTagId(state, Head(codes), "misc")}} : TRUE

\* for kanji in word.get('kanji', []): INSERT INTO jmdict_kanji, then its tags
RECURSIVE KanjiLoop(_, _, _)
KanjiLoop(state, entry_id, kanjis) ==
    CHOOSE r \in
      {IF ~st.ok \/ kanjis = << >> THEN st
       ELSE LET k == Head(kanjis)
                kanji_id == NextId(st.db.jmdict_kanji)
            IN IF "text" \notin DOMAIN k
               THEN [st EXCEPT !.ok = FALSE]
               ELSE KanjiLoop(
                      WritingTags(
                        [st EXCEPT !.db.jmdict_kanji = @ \cup
                           {[id |-> kanji_id, entry_id |-> entry_id, text |-> k.text,
                             common |-> CommonFlag(k)]}],
                        "kanji_tag_data", kanji_id, Get(k, "tags", << >>)),
                      entry_id, Tail(kanjis))
         : st \in {state}} : TRUE

RECURSIVE WordsKanji(_, _)
WordsKanji(state, words) ==
    CHOOSE r \in
      {IF ~st.ok \/ words = << >> THEN st
       ELSE WordsKanji(KanjiLoop(st, Head(words).id, Get(Head(words), "kanji", << >>)),
                       Tail(words))
         : st \in {state}} : TRUE

\* executemany INSERT OR IGNORE INTO jmdict_kanji_tags (kanji_id, tag_id)
InsertKanjiTags(d, data) ==
    [d EXCEPT !.jmdict_kanji_tags = @ \cup
        {[kanji_id |-> data[k][1], tag_id |-> data[k][2]] : k \in DOMAIN data}]

\* for kanji in word.get('kanji', []): kana_to_kanji_data.append((kana_id, kanji['text']))
AppliesToAll(kana_id, kanjis) ==
    [k \in DOMAIN kanjis |-> <<kana_id, kanjis[k].text>>]

\* for kanji_text in applies_to_kanji: kana_to_kanji_data.append((kana_id, kanji_text))
AppliesToListed(kana_id, listed) ==
    [k \in DOMAIN listed |-> <<kana_id, listed[k]>>]

\* for kana in word.get('kana', []): INSERT INTO jmdict_kana, its tags, its
\* applicability to the kanji writings
RECURSIVE KanaLoop(_, _, _)
KanaLoop(state, word, kanas) ==
    CHOOSE r \in
      {IF ~st.ok \/ kanas = << >> THEN st
       ELSE LET k == Head(kanas)
                kana_id == NextId(st.db.jmdict_kana)
                applies_to_kanji == Get(k, "appliesToKanji", <<"*">>)
                pairs == IF applies_to_kanji = <<"*">>
                         THEN AppliesToAll(kana_id, Get(word, "kanji", << >>))
                         ELSE AppliesToListed(kana_id, applies_to_kanji)
            IN IF "text" \notin DOMAIN k
               THEN [st EXCEPT !.ok = FALSE]
               ELSE KanaLoop(
                      [WritingTags(
                         [st EXCEPT !.db.jmdict_kana = @ \cup
                            {[id |-> kana_id, entry_id |-> word.id, text |-> k.text,
                              common |-> CommonFlag(k)]}],
                         "kana_tag_data", kana_id, Get(k, "tags", << >>))
                       EXCEPT !.kana_to_kanji_data = @ \o pairs],
                      word, Tail(kanas))
         : st \in {state}} : TRUE

RECURSIVE WordsKana(_, _)
WordsKana(state, words) ==
    CHOOSE r \in
      {IF ~st.ok \/ words = << >> THEN st
       ELSE WordsKana(KanaLoop(st, Head(words), Get(Head(words), "kana", << >>)),
                      Tail(words))
         : st \in {state}} : TRUE

\* executemany INSERT OR IGNORE INTO jmdict_kana_tags (kana_id, tag_id)
InsertKanaTags(d, data) ==
    [d EXCEPT !.jmdict_kana_tags = @ \cup
        {[kana_id |-> data[k][1], tag_id |-> data[k][2]] : k \in DOMAIN data}]

\* executemany INSERT OR IGNORE INTO jmdict_kana_to_kanji (kana_id, kanji_text)
InsertKanaToKanji(d, data) ==
    [d EXCEPT !.jmdict_kana_to_kanji = @ \cup
        {[kana_id |-> data[k][1], kanji_text |-> data[k][2]] : k \in DOMAIN data}]

\* for pos in sense.get('partOfSpeech', []): INSERT OR IGNORE INTO jmdict_sense_pos
RECURSIVE PosLoop(_, _, _)
PosLoop(state, sense_id, codes) ==
    IF codes = << >> THEN state
    ELSE CHOOSE r \in
           {PosLoop([got.st EXCEPT !.db.jmdict_sense_pos = @ \cup
                       {[sense_id |-> sense_id, tag_id |-> got.id]}],
                    sense_id, Tail(codes))
              : got \in {GetTagId(state, Head(codes), "pos")}} : TRUE

\* faulty variant: an explicit list is stored like "applies to all"
AppliesRowsNone(sense_id, key, listed) ==
    {}

\* if applies_to != ['*']: INSERT OR IGNORE INTO jmdict_sense_applies_to_kanji
\* / jmdict_sense_applies_to_kana (sense_id, <key>) for each listed text
AppliesRows(sense_id, key, listed) ==
    IF listed = <<"*">> THEN {}
    ELSE {(key :> listed[k]) @@ [sense_id |-> sense_id] : k \in DOMAIN listed}

\* for code in sense.get(<key>, []): tag_id = self._get_tag_id(code, category);
\* INSERT OR IGNORE INTO <table> (sense_id, tag_id)
RECURSIVE JunctionLoop(_, _, _, _, _)
JunctionLoop(state, table, sense_id, codes, category) ==
    IF codes = << >> THEN state
    ELSE CHOOSE r \in
           {JunctionLoop([got.st EXCEPT !.db[table] = @ \cup
                            {[sense_id |-> sense_id, tag_id |-> got.id]}],
                         table, sense_id, Tail(codes), category)
              : got \in {GetTagId(state, Head(codes), category)}} : TRUE

\* INSERT INTO <table> (sense_id, ...) for each element of a list: the rows
\* take the next identifiers in order
RECURSIVE InsertEach(_, _, _)
InsertEach(d, table, rows) ==
    IF rows = << >> THEN d
    ELSE InsertEach([d EXCEPT ![table] = @ \cup {[id |-> NextId(@)] @@ Head(rows)}],
                    table, Tail(rows))

\* for gloss in sense.get('gloss', []): gloss_data.append(...)
RECURSIVE GlossLoop(_, _, _)
GlossLoop(state, sense_id, glosses) ==
    CHOOSE r \in
      {IF ~st.ok \/ glosses = << >> THEN st
       ELSE LET g == Head(glosses)
            IN IF "text" \notin DOMAIN g \/ "lang" \notin DOMAIN g
               THEN [st EXCEPT !.ok = FALSE]
               ELSE GlossLoop(
                      [st EXCEPT !.gloss_data = Append(@,
                         [sense_id |-> sense_id, text |-> g.text, lang |-> g.lang])],
                      sense_id, Tail(glosses))
         : st \in {state}} : TRUE

\* for lang_source in sense.get('languageSource', []): lang_source.get('lang'),
\* lang_source.get('full'), 1 if lang_source.get('wasei', False) else 0
LanguageSources(sense_id, sources) ==
    [k \in DOMAIN sources |->
        [sense_id |-> sense_id, lang |-> Get(sources[k], "lang", "NULL"),
         full_text |-> Get(sources[k], "full", "NULL"),
         wasei |-> IF Get(sources[k], "wasei", FALSE) THEN 1 ELSE 0]]

\* for related in sense.get('related', []) / for antonym in sense.get('antonym', [])
Xrefs(sense_id, texts, type) ==
    [k \in DOMAIN texts |-> [sense_id |-> sense_id, text |-> texts[k], type |-> type]]

\* the statements of a sense that follow its glosses: INSERT INTO
\* jmdict_language_source, INSERT INTO jmdict_xrefs (related, then antonym)
SenseSources(state, sense_id, s) ==
    CHOOSE r \in
      {IF ~st.ok THEN st
       ELSE [st EXCEPT !.db =
               InsertEach(
                 InsertEach(
                   InsertEach(@, "jmdict_language_source",
                      LanguageSources(sense_id, Get(s, "languageSource", << >>))),
                   "jmdict_xrefs", Xrefs(sense_id, Get(s, "related", << >>), "related")),
                 "jmdict_xrefs", Xrefs(sense_id, Get(s, "antonym", << >>), "antonym"))]
         : st \in {state}} : TRUE

\* for sense in word.get('sense', []): INSERT INTO jmdict_sense, then its children
RECURSIVE SenseLoop(_, _, _)
SenseLoop(state, entry_id, senses) ==
    CHOOSE r \in
      {IF ~st.ok \/ senses = << >> THEN st
       ELSE LET s == Head(senses)
                sense_id == NextId(st.db.jmdict_sense)
                info == Get(s, "info", << >>)
                s1 == [st EXCEPT !.db.jmdict_sense = @ \cup
                         {[id |-> sense_id, entry_id |-> entry_id]}]
                s2 == PosLoop(s1, sense_id, Get(s, "partOfSpeech", << >>))
                s3 == [s2 EXCEPT
                         !.db.jmdict_sense_applies_to_kanji = @ \cup
                             AppliesRows(sense_id, "kanji_text",
                                         Get(s, "appliesToKanji", <<"*">>)),
                         !.db.jmdict_sense_applies_to_kana = @ \cup
                             AppliesRows(sense_id, "kana_text",
                                         Get(s, "appliesToKana", <<"*">>))]
                s4 == JunctionLoop(s3, "jmdict_sense_field", sense_id,
                                   Get(s, "field", << >>), "field")
                s5 == JunctionLoop(s4, "jmdict_sense_misc", sense_id,
                                   Get(s, "misc", << >>), "misc")
                s6 == JunctionLoop(s5, "jmdict_sense_dialect", sense_id,
                                   Get(s, "dialect", << >>), "dialect")
                s7 == [s6 EXCEPT !.db = InsertEach(@, "jmdict_sense_info",
                         [k \in DOMAIN info |->
                             [sense_id |-> sense_id, text |-> info[k]]])]
                s8 == GlossLoop(s7, sense_id, Get(s, "gloss", << >>))
            IN SenseLoop(SenseSources(s8, sense_id, s), entry_id, Tail(senses))
         : st \in {state}} : TRUE

RECURSIVE WordsSense(_, _)
WordsSense(state, words) ==
    CHOOSE r \in
      {IF ~st.ok \/ words = << >> THEN st
       ELSE WordsSense(SenseLoop(st, Head(words).id, Get(Head(words), "sense", << >>)),
                       Tail(words))
         : st \in {state}} : TRUE

\* one INSERT INTO jmdict_gloss, with the after-insert trigger when it exists
InsertGloss(d, g) ==
    LET row == [id |-> NextId(d.jmdict_gloss), sense_id |-> g.sense_id,
                text |-> g.text, lang |-> g.lang]
    IN [d EXCEPT !.jmdict_gloss = @ \cup {row},
                 !.jmdict_gloss_fts =
                     IF "jmdict_gloss_ai" \in d.triggers
                     THEN GlossAfterInsert(@, row) ELSE @]

\* executemany INSERT INTO jmdict_gloss
RECURSIVE InsertGlosses(_, _)
InsertGlosses(d, gloss_data) ==
    IF gloss_data = << >> THEN d
    ELSE InsertGlosses(InsertGloss(d, Head(gloss_data)), Tail(gloss_data))

\* "# Insert kanji tags", then the kana loop
KanaStep(state, words) ==
    CHOOSE r \in
      {IF ~st.ok THEN st
       ELSE WordsKana([st EXCEPT !.db = InsertKanjiTags(@, st.kanji_tag_data)], words)
         : st \in {state}} : TRUE

\* "# Insert kana tags", "# Insert kana to kanji applicability", then the
\* sense loop
SenseStep(state, words) ==
    CHOOSE r \in
      {IF ~st.ok THEN st
       ELSE WordsSense(
              [st EXCEPT !.db = InsertKanaToKanji(InsertKanaTags(@, st.kana_tag_data),
                                                  st.kana_to_kanji_data)],
              words)
         : st \in {state}} : TRUE

\* "# Batch insert glosses"
GlossStep(state) ==
    CHOOSE r \in
      {IF ~st.ok THEN st
       ELSE [st EXCEPT !.db = InsertGlosses(@, st.gloss_data)]
         : st \in {state}} : TRUE

\* st.ok = FALSE: an exception left the batch where st.db stands
ProcessWordBatch(st, words) ==
    IF \E k \in DOMAIN words : "id" \notin DOMAIN words[k]
    THEN [st EXCEPT !.ok = FALSE]
    ELSE GlossStep(
           SenseStep(
             KanaStep(
               WordsKanji([st EXCEPT !.db = InsertEntries(@, words)], words),
               words),
             words))

(***************************************************************************)
(* Kanjidic2Parser._process_character_batch                                *)
(***************************************************************************)
\* faulty variant: the batch's characters replace the rows of the table
InsertCharactersReplacing(d, chars) ==
    [d EXCEPT !.kanjidic_characters =
        {[literal |-> chars[k].literal] : k \in DOMAIN chars}]

\* executemany INSERT OR IGNORE INTO kanjidic_characters
RECURSIVE InsertCharacters(_, _)
InsertCharacters(d, chars) ==
    IF chars = << >> THEN d
    ELSE LET c == Head(chars)
             d1 == IF \E r \in d.kanjidic_characters : r.literal = c.literal THEN d
                   ELSE [d EXCEPT !.kanjidic_characters = @ \cup
                           {[literal |-> c.literal]}]
         IN InsertCharacters(d1, Tail(chars))

\* the meanings of all groups of one character, in order
RECURSIVE GroupMeanings(_)
GroupMeanings(groups) ==
    IF groups = << >> THEN << >>
    ELSE Get(Head(groups), "meanings", << >>) \o GroupMeanings(Tail(groups))

\* meaning_data of a batch; ok = FALSE when a meaning lacks 'lang' or 'value'
RECURSIVE CollectMeanings(_)
CollectMeanings(chars) ==
    IF chars = << >> THEN [ok |-> TRUE, data |-> << >>]
    ELSE LET c == Head(chars)
             ms == GroupMeanings(Get(Get(c, "readingMeaning", << >>), "groups", << >>))
             rest == CollectMeanings(Tail(chars))
         IN IF \E k \in DOMAIN ms : {"lang", "value"} \ DOMAIN ms[k] # {}
            THEN [ok |-> FALSE, data |-> << >>]
            ELSE [ok |-> rest.ok,
                  data |-> [k \in DOMAIN ms |->
                              [character |-> c.literal, lang |-> ms[k].lang,
                               value |-> ms[k].value]] \o rest.data]

\* executemany INSERT OR IGNORE INTO kanjidic_meanings (the table has no
\* UNIQUE constraint, so nothing is ignored)
RECURSIVE InsertMeanings(_, _)
InsertMeanings(d, data) ==
    IF data = << >> THEN d
    ELSE LET m == Head(data)
             row == [id |-> NextId(d.kanjidic_meanings), character |-> m.character,
                     lang |-> m.lang, value |-> m.value]
         IN InsertMeanings(
                [d EXCEPT !.kanjidic_meanings = @ \cup {row},
                          !.kanjidic_meanings_fts =
                              IF "kanjidic_meanings_ai" \in d.triggers
                              THEN MeaningsAfterInsert(@, row) ELSE @],
                Tail(data))

\* the result: the database, whether the batch completed, and whether a
\* statement ran (so that a transaction is open)
ProcessCharacterBatch(d, chars) ==
    IF \E k \in DOMAIN chars : "literal" \notin DOMAIN chars[k]
    THEN [db |-> d, ok |-> FALSE, ran |-> FALSE]
    ELSE LET d1 == InsertCharacters(d, chars)
             col == CollectMeanings(chars)
         IN IF col.ok
            THEN [db |-> InsertMeanings(d1, col.data), ok |-> TRUE, ran |-> TRUE]
            ELSE [db |-> d1, ok |-> FALSE, ran |-> TRUE]

(***************************************************************************)
(* The loader: dataLoaders/dict_loaders.py and the two parse_file methods  *)
(***************************************************************************)
NoCache == [k \in {} |-> 0]

\* faulty variant: the commit after a batch is left out
CommitSkipped(view, committed) ==
    committed

\* self.conn.commit() after a batch: what the connection sees becomes the
\* committed database
Commit(view, committed) ==
    view

\* faulty variant: the triggers are left in place during the load
DropTriggersSkipped(d, names) ==
    d

\* _recreate_fts_triggers of either parser: CREATE TRIGGER IF NOT EXISTS
RecreateTriggers(d, names) ==
    [d EXCEPT !.triggers = @ \cup names]

\* DROP TRIGGER IF EXISTS for the three triggers of one table
DropTriggers(d, names) ==
    [d EXCEPT !.triggers = @ \ names]

\* the index the after-insert trigger would have built for rows, in rowid order
RECURSIVE ApplyAfterInsert(_, _)
ApplyAfterInsert(fts, rows) ==
    IF rows = {} THEN fts
    ELSE LET r == CHOOSE x \in rows : \A y \in rows : x.id <= y.id
         IN ApplyAfterInsert(GlossAfterInsert(fts, r), rows \ {r})

\* the loop of JMdictParser.parse_file run to its end or to the first exception
RECURSIVE RunBatches(_, _, _, _)
RunBatches(state, words, n, off) ==
    CHOOSE r \in
      {IF ~st.ok \/ off >= Len(words) THEN st
       ELSE RunBatches(ProcessWordBatch(BatchState(st.db, st.cache, st.resolved),
                                        Slice(words, off, n)),
                       words, n, off + n)
         : st \in {state}} : TRUE

\* one uninterrupted load_jmdict of file into a database initialize_database
\* has just created
SingleLoad(file, n) ==
    LET d1 == InsertFileTags(CreateTables(NoDatabase), file.tags)
    IN RunBatches(BatchState(d1, CacheAllTags(NoCache, d1.tags), {}),
                  file.words, n, 0)

\* no call of _get_tag_id on its own has been made
NoCall == [made |-> FALSE]

\* no parse_file has run yet
NoBatches == [of |-> "none", batches |-> << >>]

\* faulty variant of the guard: it raises once the connection is there
NotInitializedAfter(c) ==
    c

\* if not self.conn: raise ValueError("Database not initialized. ...")
NotInitialized(c) ==
    ~c

\* DatabaseGeneration: the three dictionary families
Families == {"jmdict", "jmnedict", "kanjidic2"}

\* DatabaseGeneration: a database file that does not exist yet; per family
\* the rows of its metadata table and the keys of its words/characters table
NoDatabaseB ==
    [schema |-> FALSE, meta |-> [f \in Families |-> {}],
     words |-> [f \in Families |-> {}]]

Init ==
    /\ jm_file \in {[tags |-> FileTags, words |-> ws] : ws \in SeqsUpTo(Words, MaxWords)}
    /\ kd_file \in {[characters |-> cs] : cs \in SeqsUpTo(Characters, MaxChars)}
    /\ batch_size \in 1..MaxBatch
    /\ conn = FALSE
    /\ db = NoDatabase
    /\ disk = NoDatabase
    /\ fk = FALSE
    /\ inTxn = FALSE
    /\ pc = "idle"
    /\ i = 0
    /\ tag_cache = NoCache
    /\ resolved = {}
    /\ twin_fts = {}
    /\ prev_jm = NoDatabase
    /\ runs = << >>
    /\ loads = 0
    /\ last = "none"
    /\ result = "none"
    /\ writes = 0
    /\ tag_call = NoCall
    /\ b_conn = NoDatabaseB
    /\ b_disk = NoDatabaseB
    /\ b_runs = << >>
    /\ handed = NoBatches

\* DictionaryLoader.initialize_database: schema.connect(), schema.create_tables()
InitializeDatabase ==
    /\ pc = "idle"
    /\ conn' = TRUE
    /\ fk' = TRUE
    /\ inTxn' = FALSE
    /\ db' = CreateTables(disk)
    /\ disk' = db'
    /\ last' = "initialize_database"
    /\ result' = "ok"
    /\ UNCHANGED <<jm_file, kd_file, batch_size, handed, pc, i, tag_cache, resolved,
                   twin_fts, prev_jm, runs, loads>>
    /\ UNCHANGED notLoader

\* DatabaseSchema.rebuild_fts_index called on its own
RebuildFts ==
    /\ pc = "idle"
    /\ conn
    /\ IF NoSuchTable(db, "jmdict_gloss_fts")
       THEN /\ result' = "raised"
            /\ UNCHANGED <<db, disk, inTxn>>
       ELSE /\ db' = RebuildExisting(db)
            /\ disk' = db'
            /\ inTxn' = FALSE
            /\ result' = "ok"
    /\ last' = "rebuild_fts_index"
    /\ UNCHANGED <<jm_file, kd_file, batch_size, handed, conn, fk, pc, i, tag_cache,
                   resolved, twin_fts, prev_jm, runs, loads>>
    /\ UNCHANGED notLoader

\* load_jmdict up to the try of JMdictParser.parse_file: a new parser,
\* _process_tags (committed), foreign keys off, BEGIN, the triggers dropped
LoadJmdictBegin ==
    /\ pc = "idle"
    /\ ~NotInitialized(conn)
    /\ loads < MaxLoads
    /\ LET d1 == InsertFileTags(db, jm_file.tags)
       IN /\ disk' = d1
          /\ tag_cache' = CacheAllTags(NoCache, d1.tags)
          /\ db' = DropTriggers(d1, GlossTriggers)
    /\ fk' = FALSE
    /\ inTxn' = TRUE
    /\ pc' = "jm_batch"
    /\ i' = 0
    /\ loads' = loads + 1
    /\ prev_jm' = disk
    /\ UNCHANGED <<jm_file, kd_file, batch_size, conn, resolved, twin_fts,
                   runs, last, result>>
    /\ UNCHANGED notLoader
    /\ handed' = [of |-> "jmdict", batches |-> << >>]

\* one turn of the loop: _process_word_batch, commit, BEGIN; or the exception
LoadJmdictBatch ==
    /\ pc = "jm_batch"
    /\ i < Len(jm_file.words)
    /\ LET st == ProcessWordBatch(
                   BatchState(db, tag_cache, resolved),
                   Slice(jm_file.words, i, batch_size))
       IN /\ db' = st.db
          /\ tag_cache' = st.cache
          /\ resolved' = st.resolved
          /\ twin_fts' = ApplyAfterInsert(twin_fts,
                                          st.db.jmdict_gloss \ db.jmdict_gloss)
          /\ disk' = IF st.ok THEN Commit(st.db, disk) ELSE disk
          /\ pc' = IF st.ok THEN "jm_batch" ELSE "jm_raised"
          /\ i' = IF st.ok THEN i + batch_size ELSE i
    /\ UNCHANGED <<jm_file, kd_file, batch_size, conn, fk, inTxn, prev_jm, runs,
                   loads, last, result>>
    /\ UNCHANGED notLoader
    /\ handed' = [handed EXCEPT !.batches = Append(@, Slice(jm_file.words, i, batch_size))]

\* the load is interrupted before the next batch has run a statement
LoadJmdictInterrupt ==
    /\ pc = "jm_batch"
    /\ i < Len(jm_file.words)
    /\ pc' = "jm_interrupted"
    /\ UNCHANGED <<jm_file, kd_file, batch_size, handed, conn, db, disk, fk, inTxn, i,
                   tag_cache, resolved, twin_fts, prev_jm, runs, loads, last, result>>
    /\ UNCHANGED notLoader

\* the finally of parse_file: commit, foreign keys on, the triggers recreated;
\* an exception then leaves load_jmdict
LoadJmdictFinally ==
    /\ \/ pc \in {"jm_raised", "jm_interrupted"}
       \/ pc = "jm_batch" /\ i >= Len(jm_file.words)
    /\ db' = RecreateTriggers(db, GlossTriggers)
    /\ disk' = db'
    /\ inTxn' = FALSE
    /\ fk' = TRUE
    /\ pc' = IF pc = "jm_batch" THEN "jm_parsed" ELSE "idle"
    /\ last' = IF pc = "jm_batch" THEN last ELSE "load_jmdict"
    /\ result' = IF pc = "jm_batch" THEN result
                 ELSE IF pc = "jm_raised" THEN "raised" ELSE "interrupted"
    /\ runs' = IF pc = "jm_batch" THEN runs
               ELSE Append(runs, [result |-> result', batches |-> i])
    /\ UNCHANGED <<jm_file, kd_file, batch_size, handed, conn, i, tag_cache, resolved,
                   twin_fts, prev_jm, loads>>
    /\ UNCHANGED notLoader

\* load_jmdict after parse_file returned: schema.rebuild_fts_index()
LoadJmdictRebuild ==
    /\ pc = "jm_parsed"
    /\ IF NoSuchTable(db, "jmdict_gloss_fts")
       THEN /\ result' = "raised"
            /\ UNCHANGED <<db, disk>>
       ELSE /\ db' = RebuildExisting(db)
            /\ disk' = db'
            /\ result' = "ok"
    /\ pc' = "idle"
    /\ last' = "load_jmdict"
    /\ runs' = Append(runs, [result |-> result', batches |-> i])
    /\ UNCHANGED <<jm_file, kd_file, batch_size, handed, conn, fk, inTxn, i, tag_cache,
                   resolved, twin_fts, prev_jm, loads>>
    /\ UNCHANGED notLoader

\* load_kanjidic up to the try of Kanjidic2Parser.parse_file: foreign keys
\* off, the triggers dropped (no transaction is open: the drop is durable)
LoadKanjidicBegin ==
    /\ pc = "idle"
    /\ ~NotInitialized(conn)
    /\ loads < MaxLoads
    /\ fk' = IF inTxn THEN fk ELSE FALSE
    /\ db' = DropTriggers(db, MeaningsTriggers)
    /\ disk' = IF inTxn THEN disk ELSE db'
    /\ pc' = "kd_batch"
    /\ i' = 0
    /\ loads' = loads + 1
    /\ UNCHANGED <<jm_file, kd_file, batch_size, conn, inTxn, tag_cache, resolved,
                   twin_fts, prev_jm, runs, last, result>>
    /\ UNCHANGED notLoader
    /\ handed' = [of |-> "kanjidic", batches |-> << >>]

\* one turn of the loop: _process_character_batch, commit; or the exception
LoadKanjidicBatch ==
    /\ pc = "kd_batch"
    /\ i < Len(kd_file.characters)
    /\ LET r == ProcessCharacterBatch(db, Slice(kd_file.characters, i, batch_size))
       IN /\ db' = r.db
          /\ disk' = IF r.ok THEN Commit(r.db, disk) ELSE disk
          /\ inTxn' = IF r.ok THEN FALSE ELSE (inTxn \/ r.ran)
          /\ pc' = IF r.ok THEN "kd_batch" ELSE "kd_raised"
          /\ i' = IF r.ok THEN i + batch_size ELSE i
    /\ UNCHANGED <<jm_file, kd_file, batch_size, conn, fk, tag_cache, resolved,
                   twin_fts, prev_jm, runs, loads, last, result>>
    /\ UNCHANGED notLoader
    /\ handed' = [handed EXCEPT !.batches = Append(@, Slice(kd_file.characters, i, batch_size))]

\* the finally of parse_file: PRAGMA foreign_keys = ON (without effect inside
\* a transaction), the triggers recreated, commit
LoadKanjidicFinally ==
    /\ \/ pc = "kd_raised"
       \/ pc = "kd_batch" /\ i >= Len(kd_file.characters)
    /\ fk' = IF inTxn THEN fk ELSE TRUE
    /\ db' = RecreateTriggers(db, MeaningsTriggers)
    /\ disk' = db'
    /\ inTxn' = FALSE
    /\ pc' = IF pc = "kd_batch" THEN "kd_parsed" ELSE "idle"
    /\ last' = IF pc = "kd_batch" THEN last ELSE "load_kanjidic"
    /\ result' = IF pc = "kd_batch" THEN result ELSE "raised"
    /\ UNCHANGED <<jm_file, kd_file, batch_size, handed, conn, i, tag_cache, resolved,
                   twin_fts, prev_jm, runs, loads>>
    /\ UNCHANGED notLoader

\* load_kanjidic after parse_file returned: the rebuild of
\* kanjidic_meanings_fts; except sqlite3.OperationalError: logger.warning
LoadKanjidicRebuild ==
    /\ pc = "kd_parsed"
    /\ IF NoSuchTable(db, "kanjidic_meanings_fts")
       THEN /\ result' = "warned"
            /\ UNCHANGED <<db, disk>>
       ELSE /\ db' = RebuildMeanings(db)
            /\ disk' = db'
            /\ result' = "ok"
    /\ pc' = "idle"
    /\ last' = "load_kanjidic"
    /\ UNCHANGED <<jm_file, kd_file, batch_size, handed, conn, fk, inTxn, i, tag_cache,
                   resolved, twin_fts, prev_jm, runs, loads>>
    /\ UNCHANGED notLoader

(***************************************************************************)
(* Single statements a client runs on the loaded tables: the schema's       *)
(* triggers and ON DELETE CASCADE clauses decide what they do.  Each is one *)
(* committed statement; a failed statement is rolled back.                  *)
(***************************************************************************)
\* faulty variant: the senses go, their children stay
DeleteSensesOnly(d, ids) ==
    [d EXCEPT !.jmdict_sense = {r \in @ : r.id \notin ids}]

\* DELETE FROM jmdict_sense with foreign keys enforced: ON DELETE CASCADE of
\* every table that references jmdict_sense(id), jmdict_gloss_ad for every
\* gloss deleted
DeleteSenses(d, ids) ==
    LET gone == {g \in d.jmdict_gloss : g.sense_id \in ids}
    IN [t \in DOMAIN d |->
          IF t = "jmdict_sense" THEN {r \in d[t] : r.id \notin ids}
          ELSE IF t \in SenseTables THEN {r \in d[t] : r.sense_id \notin ids}
          ELSE IF t = "jmdict_gloss_fts" /\ "jmdict_gloss_ad" \in d.triggers
          THEN {e \in d[t] : \A g \in gone : e.rowid # g.id}
          ELSE d[t]]

\* DELETE FROM jmdict_entries with foreign keys enforced: ON DELETE CASCADE of
\* jmdict_kanji, jmdict_kana (and of the tables that reference them) and
\* jmdict_sense
DeleteEntries(d, ids) ==
    LET d1 == DeleteSenses(d, {r.id : r \in {x \in d.jmdict_sense : x.entry_id \in ids}})
        kanji == {r.id : r \in {x \in d.jmdict_kanji : x.entry_id \in ids}}
        kana == {r.id : r \in {x \in d.jmdict_kana : x.entry_id \in ids}}
    IN [d1 EXCEPT !.jmdict_entries = {r \in @ : r.id \notin ids},
                  !.jmdict_kanji = {r \in @ : r.entry_id \notin ids},
                  !.jmdict_kanji_tags = {r \in @ : r.kanji_id \notin kanji},
                  !.jmdict_kana = {r \in @ : r.entry_id \notin ids},
                  !.jmdict_kana_tags = {r \in @ : r.kana_id \notin kana},
                  !.jmdict_kana_to_kanji = {r \in @ : r.kana_id \notin kana}]

\* the texts a client writes
GlossTexts == {<<"Look">>, <<"new">>}

\* the frame of one client statement: d is the database it leaves, twin the
\* index the triggers alone would hold, failed whether the statement raised
ClientWrite(kind, d, twin, failed) ==
    /\ db' = IF failed THEN db ELSE d
    /\ disk' = db'
    /\ twin_fts' = IF failed THEN twin_fts ELSE twin
    /\ writes' = writes + 1
    /\ last' = kind
    /\ result' = IF failed THEN "error" ELSE "ok"
    /\ UNCHANGED <<jm_file, kd_file, batch_size, handed, conn, fk, inTxn, pc, i, tag_cache,
                   resolved, prev_jm, runs, loads, tag_call, b_conn, b_disk, b_runs>>

ClientCanWrite ==
    pc = "idle" /\ conn /\ writes < MaxWrites

\* INSERT INTO jmdict_gloss (sense_id, text, lang) VALUES (?, ?, ?)
InsertGlossRow ==
    /\ ClientCanWrite
    /\ \E s \in db.jmdict_sense, text \in GlossTexts :
          LET g == [sense_id |-> s.id, text |-> text, lang |-> "eng"]
              row == [id |-> NextId(db.jmdict_gloss), sense_id |-> s.id,
                      text |-> text, lang |-> "eng"]
          IN ClientWrite("insert_gloss", InsertGloss(db, g),
                         GlossAfterInsert(twin_fts, row), FALSE)

\* UPDATE jmdict_gloss SET text = ? WHERE id = ?
UpdateGlossRow ==
    /\ ClientCanWrite
    /\ \E old \in db.jmdict_gloss, text \in GlossTexts :
          LET new == [old EXCEPT !.text = text]
              d == [db EXCEPT !.jmdict_gloss = (@ \ {old}) \cup {new},
                              !.jmdict_gloss_fts =
                                  IF "jmdict_gloss_au" \in db.triggers
                                  THEN GlossAfterUpdate(@, old, new) ELSE @]
          IN /\ text # old.text
             /\ \E failed \in BOOLEAN :
                   /\ failed => DeleteOfUnindexed(db.jmdict_gloss_fts, db.triggers,
                                                   "jmdict_gloss_au", {old})
                   /\ ClientWrite("update_gloss", d,
                                   GlossAfterUpdate(twin_fts, old, new), failed)

\* DELETE FROM jmdict_gloss WHERE id = ?
DeleteGlossRow ==
    /\ ClientCanWrite
    /\ \E old \in db.jmdict_gloss :
          LET d == [db EXCEPT !.jmdict_gloss = @ \ {old},
                              !.jmdict_gloss_fts =
                                  IF "jmdict_gloss_ad" \in db.triggers
                                  THEN GlossAfterDelete(@, old) ELSE @]
          IN \E failed \in BOOLEAN :
                /\ failed => DeleteOfUnindexed(db.jmdict_gloss_fts, db.triggers,
                                                "jmdict_gloss_ad", {old})
                /\ ClientWrite("delete_gloss", d, GlossAfterDelete(twin_fts, old), failed)

\* INSERT INTO kanjidic_meanings (character, lang, value) VALUES (?, ?, ?)
InsertMeaningRow ==
    /\ ClientCanWrite
    /\ \E c \in db.kanjidic_characters, text \in GlossTexts :
          ClientWrite("insert_meaning",
                      InsertMeanings(db, << [character |-> c.literal, lang |-> "en",
                                             value |-> text] >>),
                      twin_fts, FALSE)

\* UPDATE kanjidic_meanings SET value = ? WHERE id = ?
UpdateMeaningRow ==
    /\ ClientCanWrite
    /\ \E old \in db.kanjidic_meanings, text \in GlossTexts :
          LET new == [old EXCEPT !.value = text]
              d == [db EXCEPT !.kanjidic_meanings = (@ \ {old}) \cup {new},
                              !.kanjidic_meanings_fts =
                                  IF "kanjidic_meanings_au" \in db.triggers
                                  THEN MeaningsAfterUpdate(@, old, new) ELSE @]
          IN /\ text # old.value
             /\ \E failed \in BOOLEAN :
                   /\ failed => DeleteOfUnindexed(db.kanjidic_meanings_fts, db.triggers,
                                                   "kanjidic_meanings_au", {old})
                   /\ ClientWrite("update_meaning", d, twin_fts, failed)

\* DELETE FROM kanjidic_meanings WHERE id = ?
DeleteMeaningRow ==
    /\ ClientCanWrite
    /\ \E old \in db.kanjidic_meanings :
          LET d == [db EXCEPT !.kanjidic_meanings = @ \ {old},
                              !.kanjidic_meanings_fts =
                                  IF "kanjidic_meanings_ad" \in db.triggers
                                  THEN MeaningsAfterDelete(@, old) ELSE @]
          IN \E failed \in BOOLEAN :
                /\ failed => DeleteOfUnindexed(db.kanjidic_meanings_fts, db.triggers,
                                                "kanjidic_meanings_ad", {old})
                /\ ClientWrite("delete_meaning", d, twin_fts, failed)

\* DELETE FROM jmdict_sense WHERE id = ?, foreign keys enforced
DeleteSense ==
    /\ ClientCanWrite
    /\ fk
    /\ \E s \in db.jmdict_sense :
          LET d == DeleteSenses(db, {s.id})
              gone == db.jmdict_gloss \ d.jmdict_gloss
          IN \E failed \in BOOLEAN :
                /\ failed => DeleteOfUnindexed(db.jmdict_gloss_fts, db.triggers,
                                                "jmdict_gloss_ad", gone)
                /\ ClientWrite("delete_sense", d,
                                {e \in twin_fts : \A g \in gone : e.rowid # g.id}, failed)

\* DELETE FROM jmdict_entries WHERE id = ?, foreign keys enforced
DeleteEntry ==
    /\ ClientCanWrite
    /\ fk
    /\ \E w \in db.jmdict_entries :
          LET d == DeleteEntries(db, {w.id})
              gone == db.jmdict_gloss \ d.jmdict_gloss
          IN \E failed \in BOOLEAN :
                /\ failed => DeleteOfUnindexed(db.jmdict_gloss_fts, db.triggers,
                                                "jmdict_gloss_ad", gone)
                /\ ClientWrite("delete_entry", d,
                                {e \in twin_fts : \A g \in gone : e.rowid # g.id}, failed)

Next ==
    \/ InitializeDatabase
    \/ RebuildFts
    \/ LoadJmdictBegin
    \/ LoadJmdictBatch
    \/ LoadJmdictInterrupt
    \/ LoadJmdictFinally
    \/ LoadJmdictRebuild
    \/ LoadKanjidicBegin
    \/ LoadKanjidicBatch
    \/ LoadKanjidicFinally
    \/ LoadKanjidicRebuild
    \/ InsertGlossRow
    \/ UpdateGlossRow
    \/ DeleteGlossRow
    \/ InsertMeaningRow
    \/ UpdateMeaningRow
    \/ DeleteMeaningRow
    \/ DeleteSense
    \/ DeleteEntry

Spec == Init /\ [][Next]_vars

(***************************************************************************)
(* JMdictParser._get_tag_id called on its own, on a parser made for a       *)
(* connection whose table tags already holds rows.                          *)
(***************************************************************************)
TagCodes == {"v1", "exp"}

TagCategories == {"pos", "misc"}

\* the loader's variables while no load runs
LoaderAtRest ==
    /\ jm_file = [tags |-> FileTags, words |-> << >>]
    /\ kd_file = [characters |-> << >>]
    /\ batch_size = 1
    /\ conn = TRUE
    /\ fk = TRUE
    /\ inTxn = FALSE
    /\ pc = "idle"
    /\ i = 0
    /\ twin_fts = {}
    /\ prev_jm = NoDatabase
    /\ runs = << >>
    /\ loads = 0
    /\ last = "none"
    /\ result = "none"
    /\ writes = 0
    /\ handed = NoBatches

\* the database after create_tables, with or without the tags of a document
InitTag ==
    /\ LoaderAtRest
    /\ db \in {CreateTables(NoDatabase),
                InsertFileTags(CreateTables(NoDatabase), FileTags)}
    /\ disk = db
    /\ tag_cache = NoCache
    /\ resolved = {}
    /\ tag_call = NoCall
    /\ b_conn = NoDatabaseB
    /\ b_disk = NoDatabaseB
    /\ b_runs = << >>

\* JMdictParser(conn): tag_cache = {}
NewParser ==
    /\ tag_cache # NoCache
    /\ tag_cache' = NoCache
    /\ tag_call' = NoCall
    /\ UNCHANGED <<jm_file, kd_file, batch_size, handed, conn, db, disk, fk, inTxn, pc, i,
                   resolved, twin_fts, prev_jm, runs, loads, last, result, writes,
                   b_conn, b_disk, b_runs>>

\* parser._get_tag_id(tag, category)
ResolveTag ==
    \E tag \in TagCodes, category \in TagCategories :
       LET got == GetTagId(BatchState(db, tag_cache, resolved), tag, category)
       IN /\ db' = got.st.db
          /\ tag_cache' = got.st.cache
          /\ resolved' = got.st.resolved
          /\ tag_call' = [made |-> TRUE, tag |-> tag, category |-> category,
                          id |-> got.id, stmts |-> got.stmts,
                          rows |-> db.tags, cache |-> tag_cache]
          /\ UNCHANGED <<jm_file, kd_file, batch_size, handed, conn, disk, fk, inTxn, pc, i,
                         twin_fts, prev_jm, runs, loads, last, result, writes,
                         b_conn, b_disk, b_runs>>

NextTag ==
    \/ NewParser
    \/ ResolveTag

SpecTag == InitTag /\ [][NextTag]_vars

(***************************************************************************)
(* load_jmdict on documents whose entries have every kind of child.         *)
(***************************************************************************)
InitWords ==
    /\ jm_file \in {[tags |-> t, words |-> ws] :
                       t \in {FileTags, FileTagsFull},
                       ws \in SeqsUpTo(WordsFull, MaxWords)}
    /\ kd_file = [characters |-> << >>]
    /\ batch_size \in 1..MaxBatch
    /\ conn = FALSE
    /\ db = NoDatabase
    /\ disk = NoDatabase
    /\ fk = FALSE
    /\ inTxn = FALSE
    /\ pc = "idle"
    /\ i = 0
    /\ tag_cache = NoCache
    /\ resolved = {}
    /\ twin_fts = {}
    /\ prev_jm = NoDatabase
    /\ runs = << >>
    /\ loads = 0
    /\ last = "none"
    /\ result = "none"
    /\ writes = 0
    /\ tag_call = NoCall
    /\ b_conn = NoDatabaseB
    /\ b_disk = NoDatabaseB
    /\ b_runs = << >>
    /\ handed = NoBatches

NextWords ==
    \/ InitializeDatabase
    \/ LoadJmdictBegin
    \/ LoadJmdictBatch
    \/ LoadJmdictFinally
    \/ LoadJmdictRebuild

SpecWords == InitWords /\ [][NextWords]_vars

(***************************************************************************)
(* The loader's guards, optimize_database, and a database whose full-text   *)
(* tables a client has dropped                                              *)
(***************************************************************************)
\* what a call that fails its guard leaves alone
notReturn == <<jm_file, kd_file, batch_size, handed, conn, db, disk, fk, inTxn, pc, i,
               tag_cache, resolved, twin_fts, prev_jm, runs, loads>>

\* load_jmdict on a loader without a connection
LoadJmdictNoConn ==
    /\ pc = "idle"
    /\ NotInitialized(conn)
    /\ last' = "load_jmdict"
    /\ result' = "ValueError"
    /\ UNCHANGED notReturn
    /\ UNCHANGED notLoader

\* load_kanjidic on a loader without a connection
LoadKanjidicNoConn ==
    /\ pc = "idle"
    /\ NotInitialized(conn)
    /\ last' = "load_kanjidic"
    /\ result' = "ValueError"
    /\ UNCHANGED notReturn
    /\ UNCHANGED notLoader

\* optimize_database: the guard, then VACUUM, PRAGMA optimize, ANALYZE and
\* commit, none of which changes a row; VACUUM fails inside a transaction
OptimizeDatabase ==
    /\ pc = "idle"
    /\ last' = "optimize_database"
    /\ result' = IF NotInitialized(conn) THEN "ValueError"
                 ELSE IF inTxn THEN "raised" ELSE "ok"
    /\ UNCHANGED notReturn
    /\ UNCHANGED notLoader

\* a client drops one of the full-text tables: DROP TABLE ..._fts
DropFtsTable ==
    /\ pc = "idle"
    /\ conn
    /\ ~inTxn
    /\ \E t \in db.virtual :
          /\ db' = [db EXCEPT !.virtual = @ \ {t}, ![t] = {}]
          /\ disk' = db'
    /\ last' = "drop_table"
    /\ result' = "ok"
    /\ UNCHANGED <<jm_file, kd_file, batch_size, handed, conn, fk, inTxn, pc, i,
                   tag_cache, resolved, twin_fts, prev_jm, runs, loads>>
    /\ UNCHANGED notLoader

NextOps ==
    \/ InitializeDatabase
    \/ LoadJmdictNoConn
    \/ LoadKanjidicNoConn
    \/ OptimizeDatabase
    \/ DropFtsTable
    \/ RebuildFts
    \/ LoadJmdictBegin
    \/ LoadJmdictBatch
    \/ LoadJmdictFinally
    \/ LoadJmdictRebuild
    \/ LoadKanjidicBegin
    \/ LoadKanjidicBatch
    \/ LoadKanjidicFinally
    \/ LoadKanjidicRebuild

SpecOps == Init /\ [][NextOps]_vars

(***************************************************************************)
(* parse_file on documents of up to MaxParse entities, some of which make   *)
(* their batch raise                                                        *)
(***************************************************************************)
InitParse ==
    /\ jm_file \in {[tags |-> FileTags, words |-> ws] :
                        ws \in SeqsUpTo({WordEat, WordSee, WordKanaOnly, WordBadKanji}, MaxParse)}
    /\ kd_file \in {[characters |-> cs] :
                        cs \in SeqsUpTo(Characters, MaxParse)}
    /\ batch_size \in 1..MaxBatch
    /\ conn = FALSE
    /\ db = NoDatabase
    /\ disk = NoDatabase
    /\ fk = FALSE
    /\ inTxn = FALSE
    /\ pc = "idle"
    /\ i = 0
    /\ tag_cache = NoCache
    /\ resolved = {}
    /\ twin_fts = {}
    /\ prev_jm = NoDatabase
    /\ runs = << >>
    /\ loads = 0
    /\ last = "none"
    /\ result = "none"
    /\ writes = 0
    /\ tag_call = NoCall
    /\ b_conn = NoDatabaseB
    /\ b_disk = NoDatabaseB
    /\ b_runs = << >>
    /\ handed = NoBatches

NextParse ==
    \/ InitializeDatabase
    \/ LoadJmdictBegin
    \/ LoadJmdictBatch
    \/ LoadJmdictFinally
    \/ LoadJmdictRebuild
    \/ LoadKanjidicBegin
    \/ LoadKanjidicBatch
    \/ LoadKanjidicFinally
    \/ LoadKanjidicRebuild

SpecParse == InitParse /\ [][NextParse]_vars

(***************************************************************************)
(* DatabaseGeneration: database_schema.py, data_loader.py                   *)
(***************************************************************************)
\* the parsed dictionaries handed to DataLoader: a version and the keys of
\* the words (characters)
DataB ==
    {[version |-> v, words |-> ws] :
        v \in {"3.5", "3.6"}, ws \in {<< >>, <<"1">>, <<"1", "2">>, <<"1", "1">>}}

\* DatabaseSchema.create_schema: CREATE TABLE IF NOT EXISTS
CreateSchema(d) ==
    [d EXCEPT !.schema = TRUE]

\* INSERT INTO <family>_metadata (id, version, ...) VALUES (1, ...): id is the
\* INTEGER PRIMARY KEY, so a second row 1 raises IntegrityError
InsertMetadata(d, f, version) ==
    IF \E r \in d.meta[f] : r.id = 1
    THEN [db |-> d, ok |-> FALSE]
    ELSE [db |-> [d EXCEPT !.meta[f] = @ \cup {[id |-> 1, version |-> version]}],
          ok |-> TRUE]

\* INSERT INTO <family>_words (id, entry_json) for each word; id is the
\* PRIMARY KEY, so a key already there raises IntegrityError
RECURSIVE InsertWordsB(_, _, _)
InsertWordsB(d, f, ids) ==
    IF ids = << >> THEN [db |-> d, ok |-> TRUE]
    ELSE IF Head(ids) \in d.words[f] THEN [db |-> d, ok |-> FALSE]
    ELSE InsertWordsB([d EXCEPT !.words[f] = @ \cup {Head(ids)}], f, Tail(ids))

\* load_jmdict_data / load_jmnedict_data / load_kanjidic2_data up to the
\* commit: the database the connection sees, and whether no statement raised
LoadData(d, f, data) ==
    IF ~d.schema THEN [db |-> d, ok |-> FALSE]
    ELSE LET m == InsertMetadata(d, f, data.version)
         IN IF m.ok THEN InsertWordsB(m.db, f, data.words) ELSE m

\* one load of family f: the commit is reached only when nothing raised
LoadFamily(f, data) ==
    /\ LET r == LoadData(b_conn, f, data)
       IN /\ b_conn' = r.db
          /\ b_disk' = IF r.ok THEN r.db ELSE b_disk
          /\ b_runs' = Append(b_runs, [family |-> f, version |-> data.version,
                                       result |-> IF r.ok THEN "ok" ELSE "raised"])
    /\ UNCHANGED <<jm_file, kd_file, batch_size, handed, conn, db, disk, fk, inTxn, pc, i,
                   tag_cache, resolved, twin_fts, prev_jm, runs, loads, last, result,
                   writes, tag_call>>

InitB ==
    /\ LoaderAtRest
    /\ db = NoDatabase
    /\ disk = NoDatabase
    /\ tag_cache = NoCache
    /\ resolved = {}
    /\ tag_call = NoCall
    /\ b_conn = NoDatabaseB
    /\ b_disk = NoDatabaseB
    /\ b_runs = << >>

\* DatabaseSchema.create_schema on the manager's connection, committed
CreateSchemaB ==
    /\ b_conn' = CreateSchema(b_conn)
    /\ b_disk' = CreateSchema(b_disk)
    /\ b_conn' # b_conn
    /\ UNCHANGED <<jm_file, kd_file, batch_size, handed, conn, db, disk, fk, inTxn, pc, i,
                   tag_cache, resolved, twin_fts, prev_jm, runs, loads, last, result,
                   writes, tag_call, b_runs>>

\* DataLoader.load_jmdict_data
LoadJmdictData ==
    /\ Len(b_runs) < MaxLoadsB
    /\ \E data \in DataB : LoadFamily("jmdict", data)

\* DataLoader.load_jmnedict_data
LoadJmnedictData ==
    /\ Len(b_runs) < MaxLoadsB
    /\ \E data \in DataB : LoadFamily("jmnedict", data)

\* DataLoader.load_kanjidic2_data
LoadKanjidic2Data ==
    /\ Len(b_runs) < MaxLoadsB
    /\ \E data \in DataB : LoadFamily("kanjidic2", data)

\* the order in which DatabaseManager.initialize_database loads the families
FamilyOrder == <<"jmdict", "jmnedict", "kanjidic2">>

\* if jmdict: load_jmdict_data(...); if jmnedict: ...; if kanjidic2: ...
\* a load that raises ends the call: the loads after it are not reached
RECURSIVE RunFamilies(_, _, _)
RunFamilies(state, todo, data) ==
    IF todo = << >> \/ ~state.ok THEN state
    ELSE CHOOSE next \in
            {RunFamilies(
                [conn |-> r.db,
                 disk |-> IF r.ok THEN r.db ELSE state.disk,
                 runs |-> Append(state.runs,
                                 [family |-> Head(todo),
                                  version |-> data[Head(todo)].version,
                                  result |-> IF r.ok THEN "ok" ELSE "raised"]),
                 ok |-> r.ok],
                Tail(todo), data) :
             r \in {LoadData(state.conn, Head(todo), data[Head(todo)])}} : TRUE

\* DatabaseManager.initialize_database(jmdict, jmnedict, kanjidic2): given is
\* the set of families whose argument is not None
InitializeDatabaseB ==
    /\ Len(b_runs) < MaxLoadsB
    /\ \E given \in SUBSET Families : \E data \in [given -> DataB] :
          /\ Len(b_runs) + Cardinality(given) <= MaxLoadsB
          /\ LET st == RunFamilies([conn |-> CreateSchema(b_conn),
                                    disk |-> CreateSchema(b_disk),
                                    runs |-> b_runs, ok |-> TRUE],
                                   SelectSeq(FamilyOrder, LAMBDA f : f \in given),
                                   data)
             IN /\ b_conn' = st.conn
                /\ b_disk' = st.disk
                /\ b_runs' = st.runs
    /\ UNCHANGED <<jm_file, kd_file, batch_size, handed, conn, db, disk, fk, inTxn, pc, i,
                   tag_cache, resolved, twin_fts, prev_jm, runs, loads, last, result,
                   writes, tag_call>>

NextB ==
    \/ CreateSchemaB
    \/ LoadJmdictData
    \/ LoadJmnedictData
    \/ LoadKanjidic2Data
    \/ InitializeDatabaseB

SpecB == InitB /\ [][NextB]_vars

(***************************************************************************)
(* Properties                                                              *)
(***************************************************************************)
\* the tokens a query may ask for; "zzz" occurs in no text
QueryTokens ==
    {"to", "eat", "see", "look", "none", "sun", "day", "moon", "new", "zzz"}

\* the index holds exactly the identifiers of rows (the base table's rows as
\* [rowid, tokens]), and a token finds exactly the rows whose text contains it
IndexMatches(fts, rows) ==
    /\ {e.rowid : e \in fts} = {r.rowid : r \in rows}
    /\ \A tok \in QueryTokens :
          {e.rowid : e \in {x \in fts : tok \in x.tokens}}
            = {r.rowid : r \in {x \in rows : tok \in x.tokens}}

GlossIndexMatches(d) ==
    IndexMatches(d.jmdict_gloss_fts,
                 {[rowid |-> r.id, tokens |-> Tokenize(r.text)] : r \in d.jmdict_gloss})

MeaningsIndexMatches(d) ==
    IndexMatches(d.kanjidic_meanings_fts,
                 {[rowid |-> r.id, tokens |-> Tokenize(r.value)] :
                     r \in d.kanjidic_meanings})

\* every entry of the index is the entry of a base-table row with its tokens
IndexWithin(d) ==
    /\ \A e \in d.jmdict_gloss_fts :
          \E r \in d.jmdict_gloss : r.id = e.rowid /\ Tokenize(r.text) = e.tokens
    /\ \A e \in d.kanjidic_meanings_fts :
          \E r \in d.kanjidic_meanings : r.id = e.rowid /\ Tokenize(r.value) = e.tokens

Returned(op, how) ==
    pc = "idle" /\ last = op /\ result = how

\* C1: when a batch of parse_file raises, the step that leaves parse_file
\* commits none of the rows the failing batch inserted (the committed rows
\* are those of before the batch).
C1_FailedBatchRolledBack ==
    [][(pc \in {"jm_raised", "kd_raised"})
         => (\A t \in BaseTables : disk'[t] = disk[t])]_vars

\* C2: a second load_jmdict of the same document into the same database
\* leaves every table with the row count the first one left.
C2_SecondLoadSameCounts ==
    (/\ Returned("load_jmdict", "ok")
     /\ Len(runs) >= 2
     /\ runs[Len(runs) - 1].result = "ok")
        => \A t \in JmTables : Cardinality(disk[t]) = Cardinality(prev_jm[t])

\* C3: every resolution of one (tag, category) pair returned the same
\* identifier, and table tags holds no two rows with one (tag, category).
C3_OneIdPerTag ==
    /\ \A a, b \in resolved :
          (a.tag = b.tag /\ a.category = b.category) => a.id = b.id
    /\ \A a, b \in db.tags :
          (a.tag = b.tag /\ a.category = b.category) => a = b

\* C3 witness: a load has ended in which the pair (v1, pos) was resolved for
\* two senses and (exp, pos) was created during a batch.
C3_Witness ==
    /\ Returned("load_jmdict", "ok")
    /\ Cardinality(db.jmdict_sense_pos) >= 3
    /\ Cardinality({r.tag_id : r \in db.jmdict_sense_pos}) = 2
    /\ \E a \in resolved : a.tag = "exp"

\* C4 as claimed: at every commit boundary each full-text index matches its
\* base table.
C4_IndexMatchesAtEveryCommit ==
    GlossIndexMatches(disk) /\ MeaningsIndexMatches(disk)

\* C4 as amended: at the commit boundary that ends a rebuild of an index, the
\* index matches its base table; at every other commit boundary the index
\* holds only entries of base-table rows (it may lack rows).
C4_IndexMatchesAfterRebuild ==
    /\ IndexWithin(disk)
    /\ (Returned("load_jmdict", "ok") \/ Returned("rebuild_fts_index", "ok"))
          => (GlossIndexMatches(disk) /\ MeaningsIndexMatches(disk))
    /\ Returned("load_kanjidic", "ok") => MeaningsIndexMatches(disk)

\* C4 witness: rebuild_fts_index has returned with both base tables loaded.
C4_Witness ==
    /\ Returned("rebuild_fts_index", "ok")
    /\ disk.jmdict_gloss # {}
    /\ disk.kanjidic_meanings # {}

\* C5: when load_jmdict / load_kanjidic has returned without error, the three
\* triggers of its table exist and its index matches the base table.
C5_LoadEndsRebuilt ==
    /\ Returned("load_jmdict", "ok")
          => (GlossTriggers \subseteq disk.triggers /\ GlossIndexMatches(disk))
    /\ Returned("load_kanjidic", "ok")
          => (MeaningsTriggers \subseteq disk.triggers /\ MeaningsIndexMatches(disk))

\* C5 witness: load_kanjidic has returned after a load_jmdict, both without
\* error and both having inserted indexed rows.
C5_Witness ==
    /\ Returned("load_kanjidic", "ok")
    /\ disk.kanjidic_meanings # {}
    /\ runs # << >>
    /\ runs[Len(runs)].result = "ok"
    /\ disk.jmdict_gloss # {}

\* every child row of d references a parent row of d
ParentsExist(d) ==
    /\ \A r \in d.jmdict_kanji : \E e \in d.jmdict_entries : e.id = r.entry_id
    /\ \A r \in d.jmdict_kana : \E e \in d.jmdict_entries : e.id = r.entry_id
    /\ \A r \in d.jmdict_kanji_tags :
          /\ \E k \in d.jmdict_kanji : k.id = r.kanji_id
          /\ \E t \in d.tags : t.id = r.tag_id
    /\ \A r \in d.jmdict_kana_tags :
          /\ \E k \in d.jmdict_kana : k.id = r.kana_id
          /\ \E t \in d.tags : t.id = r.tag_id
    /\ \A r \in d.jmdict_kana_to_kanji : \E k \in d.jmdict_kana : k.id = r.kana_id
    /\ \A t \in SenseTables : \A r \in d[t] :
          \E x \in d.jmdict_sense : x.id = r.sense_id
    /\ \A t \in {"jmdict_sense_field", "jmdict_sense_misc", "jmdict_sense_dialect"} :
          \A r \in d[t] : \E x \in d.tags : x.id = r.tag_id
    /\ \A r \in d.jmdict_sense : \E e \in d.jmdict_entries : e.id = r.entry_id
    /\ \A r \in d.jmdict_sense_pos :
          /\ \E s \in d.jmdict_sense : s.id = r.sense_id
          /\ \E t \in d.tags : t.id = r.tag_id
    /\ \A r \in d.jmdict_gloss : \E s \in d.jmdict_sense : s.id = r.sense_id
    /\ \A r \in d.kanjidic_meanings :
          \E c \in d.kanjidic_characters : c.literal = r.character

C7_CommittedBatchesKept ==
    [][(pc \in {"jm_raised", "kd_raised"} \/ pc' \in {"jm_raised", "kd_raised"})
         => (\A t \in BaseTables : disk[t] \subseteq disk'[t])]_vars

\* C7 witness: load_jmdict has raised in a batch after the first, and the rows
\* of the batches before it are committed.
C7_Witness ==
    /\ Returned("load_jmdict", "raised")
    /\ i > 0
    /\ disk.jmdict_gloss # {}

\* C8: a load interrupted after committed batches and then run again on the
\* same document ends with the rows one uninterrupted load leaves.
C8_RerunEqualsSingleLoad ==
    (/\ Returned("load_jmdict", "ok")
     /\ Len(runs) = 2
     /\ runs[1].result = "interrupted"
     /\ runs[1].batches > 0)
        => \A t \in JmTables : disk[t] = SingleLoad(jm_file, batch_size).db[t]

\* C9: initialize_database on an existing database changes no base-table row,
\* and an index that matched its base table before still matches it.
C9_CreateTablesKeepsIndex ==
    [][InitializeDatabase
         => (/\ \A t \in BaseTables : disk'[t] = disk[t]
             /\ GlossIndexMatches(disk) => GlossIndexMatches(disk')
             /\ MeaningsIndexMatches(disk) => MeaningsIndexMatches(disk'))]_vars

\* C10: after a load that dropped the triggers, inserted gloss rows and
\* rebuilt, jmdict_gloss_fts equals the index the after-insert trigger builds
\* for the same rows.
C10_RebuildEqualsTriggers ==
    Returned("load_jmdict", "ok") => disk.jmdict_gloss_fts = twin_fts

\* C10 witness: two loads have ended with a rebuild over several gloss rows.
C10_Witness ==
    /\ Returned("load_jmdict", "ok")
    /\ Len(runs) = 2
    /\ Cardinality(disk.jmdict_gloss) >= 3

\* the states an index can be found in: empty, as it stands, and holding
\* entries of rows the base table does not hold (any more)
DamagedIndexes(fts) ==
    {{}, fts, fts \cup {[rowid |-> 99, tokens |-> {"zzz"}]},
     {[rowid |-> e.rowid, tokens |-> {"zzz"}] : e \in fts}}

C12_TriggersImplySynchronized ==
    pc = "idle"
        => /\ GlossTriggers \subseteq disk.triggers => GlossIndexMatches(disk)
           /\ MeaningsTriggers \subseteq disk.triggers => MeaningsIndexMatches(disk)

\* one statement on one row of an indexed table
SingleRowWrite ==
    \/ InsertGlossRow
    \/ UpdateGlossRow
    \/ DeleteGlossRow
    \/ InsertMeaningRow
    \/ UpdateMeaningRow
    \/ DeleteMeaningRow

\* C13: a single insert, update or delete of a row of jmdict_gloss or
\* kanjidic_meanings, run while the table's triggers exist and its index
\* matches, succeeds and commits a database whose index matches again.
C13_SingleWriteKeepsIndex ==
    [][SingleRowWrite
         => (/\ (GlossTriggers \subseteq disk.triggers /\ GlossIndexMatches(disk))
                   => (GlossIndexMatches(disk')
                       /\ (last' \in {"insert_gloss", "update_gloss", "delete_gloss"}
                             => result' = "ok"))
             /\ (MeaningsTriggers \subseteq disk.triggers /\ MeaningsIndexMatches(disk))
                   => (MeaningsIndexMatches(disk')
                       /\ (last' \in {"insert_meaning", "update_meaning",
                                      "delete_meaning"}
                             => result' = "ok")))]_vars

\* C13 witness: a gloss row was updated after loads that all ended with a
\* rebuild, and the new text is found through the index.
C13_Witness ==
    /\ pc = "idle"
    /\ last = "update_gloss"
    /\ result = "ok"
    /\ runs # << >>
    /\ \A k \in DOMAIN runs : runs[k].result = "ok"
    /\ GlossIndexMatches(disk)
    /\ \E e \in disk.jmdict_gloss_fts : "new" \in e.tokens

\* C14: while the batches of parse_file run, foreign-key enforcement is off
\* and none of the three triggers of the indexed table exists.
C14_DisabledDuringBatches ==
    /\ pc \in {"jm_batch", "jm_raised", "jm_interrupted"}
          => (~fk /\ db.triggers \cap GlossTriggers = {})
    /\ pc \in {"kd_batch", "kd_raised"}
          => (~fk /\ db.triggers \cap MeaningsTriggers = {})

\* C14 witness: the first batch is committed, the next is to run, with
\* the triggers gone and enforcement off.
C14_Witness ==
    /\ pc = "jm_batch"
    /\ i > 0
    /\ i < Len(jm_file.words)
    /\ disk.jmdict_gloss # {}
    /\ ~fk

\* C15: the step that leaves parse_file, normally or after an exception,
\* leaves foreign-key enforcement on and the three triggers in place.
C15_ExitRestores ==
    [][(LoadJmdictFinally => (fk' /\ GlossTriggers \subseteq db'.triggers))
       /\ (LoadKanjidicFinally => (fk' /\ MeaningsTriggers \subseteq db'.triggers))]_vars

WellFormedWords ==
    {jm_file.words[k] : k \in {n \in DOMAIN jm_file.words : "id" \in DOMAIN jm_file.words[n]}}

\* C18: parse_file never raises on an entity that lacks a required field, and
\* after the load every other word of the document has its entry row.
C18_MalformedSkipped ==
    /\ pc \notin {"jm_raised", "kd_raised"}
    /\ (pc = "idle" /\ last = "load_jmdict" /\ result # "interrupted")
          => \A w \in WellFormedWords : \E r \in disk.jmdict_entries : r.id = w.id

\* the entities of the batch parse_file is at
BatchIds ==
    IF pc \in {"jm_batch", "jm_raised", "jm_interrupted"}
    THEN LET b == Slice(jm_file.words, i, batch_size)
         IN {b[k].id : k \in {n \in DOMAIN b : "id" \in DOMAIN b[n]}}
    ELSE IF pc \in {"kd_batch", "kd_raised"}
    THEN LET b == Slice(kd_file.characters, i, batch_size)
         IN {b[k].literal : k \in {n \in DOMAIN b : "literal" \in DOMAIN b[n]}}
    ELSE {}

\* C20: at every point of a load the uncommitted rows belong to the batch
\* parse_file is at, which has at most batch_size entities; once a batch
\* has returned nothing is uncommitted.
C20_UncommittedWithinOneBatch ==
    /\ Cardinality(BatchIds) <= batch_size
    /\ \A r \in db.jmdict_entries \ disk.jmdict_entries : r.id \in BatchIds
    /\ \A r \in db.jmdict_kanji \ disk.jmdict_kanji : r.entry_id \in BatchIds
    /\ \A r \in db.jmdict_sense \ disk.jmdict_sense : r.entry_id \in BatchIds
    /\ \A r \in db.jmdict_gloss \ disk.jmdict_gloss :
          \E x \in db.jmdict_sense : x.id = r.sense_id /\ x.entry_id \in BatchIds
    /\ \A r \in db.kanjidic_characters \ disk.kanjidic_characters : r.literal \in BatchIds
    /\ \A r \in db.kanjidic_meanings \ disk.kanjidic_meanings : r.character \in BatchIds
    /\ pc \notin {"jm_raised", "kd_raised"}
          => \A t \in BaseTables : db[t] = disk[t]

\* C20 witness: a batch after the first has raised; its rows are the only
\* uncommitted ones.
C20_Witness ==
    /\ pc = "jm_raised"
    /\ i > 0
    /\ disk.jmdict_kanji # {}
    /\ db.jmdict_kanji # disk.jmdict_kanji

\* the latest call found its pair in the cache / in table tags
CallCached ==
    <<tag_call.tag, tag_call.category>> \in DOMAIN tag_call.cache

CallStored ==
    \E r \in tag_call.rows : r.tag = tag_call.tag /\ r.category = tag_call.category

LoadedB(f) ==
    {k \in DOMAIN b_runs : b_runs[k].family = f /\ b_runs[k].result = "ok"}

\* C17: each metadata table holds at most one row, exactly one once a load of
\* its family has succeeded, and a load of a family that was loaded before
\* does not fail.
C17_MetadataSingleton ==
    \A f \in Families :
       /\ Cardinality(b_disk.meta[f]) <= 1
       /\ LoadedB(f) # {} => Cardinality(b_disk.meta[f]) = 1
       /\ \A k \in DOMAIN b_runs :
             (b_runs[k].family = f /\ \E j \in LoadedB(f) : j < k)
                => b_runs[k].result = "ok"

\* C27: a step loads families in the order jmdict, jmnedict, kanjidic2 and
\* only its last load may raise; the families it loaded are committed, and of
\* the family whose load raised it commits no row, metadata included.
C27_FailingFamilyUncommitted ==
    [][LET new == SubSeq(b_runs', Len(b_runs) + 1, Len(b_runs'))
           place(f) == CHOOSE n \in DOMAIN FamilyOrder : FamilyOrder[n] = f
       IN \A k \in DOMAIN new :
             /\ \A j \in DOMAIN new :
                   j < k => /\ place(new[j].family) < place(new[k].family)
                            /\ new[j].result = "ok"
             /\ new[k].result = "ok" =>
                   \E r \in b_disk'.meta[new[k].family] : r.version = new[k].version
             /\ new[k].result = "raised" =>
                   /\ b_disk'.meta[new[k].family] = b_disk.meta[new[k].family]
                   /\ b_disk'.words[new[k].family] = b_disk.words[new[k].family]]_vars

\* the elements of a sequence
Range(seq) ==
    {seq[k] : k \in DOMAIN seq}

\* the senses of a document in document order, each with the id of its entry
RECURSIVE AllSenses(_)
AllSenses(words) ==
    IF words = << >> THEN << >>
    ELSE LET w == Head(words)
             ss == Get(w, "sense", << >>)
         IN [k \in DOMAIN ss |-> [entry_id |-> w.id, sense |-> ss[k]]]
               \o AllSenses(Tail(words))

\* the kana writings of a document in document order, each with its word
RECURSIVE AllKana(_)
AllKana(words) ==
    IF words = << >> THEN << >>
    ELSE LET w == Head(words)
             ks == Get(w, "kana", << >>)
         IN [k \in DOMAIN ks |-> [word |-> w, kana |-> ks[k]]] \o AllKana(Tail(words))

\* the first load_jmdict on a database initialize_database had just created
\* has returned: the k-th sense (kana writing) of the document has rowid k
FirstLoadDone ==
    /\ Returned("load_jmdict", "ok")
    /\ Len(runs) = 1
    /\ \A t \in JmTables : prev_jm[t] = {}

\* rows holds one row per writing of the entry, with its text and common flag
WritingsStored(rows, entry_id, writings) ==
    LET mine == {r \in rows : r.entry_id = entry_id}
        flag(n) == IF Get(writings[n], "common", FALSE) THEN 1 ELSE 0
    IN /\ Cardinality(mine) = Len(writings)
       /\ \A n \in DOMAIN writings :
             Cardinality({r \in mine : r.text = writings[n].text /\ r.common = flag(n)})
               = Cardinality({m \in DOMAIN writings :
                                 writings[m].text = writings[n].text /\ flag(m) = flag(n)})

\* C21: after the load of a document with distinct ids into an empty database
\* there is exactly one jmdict_entries row per entry, one jmdict_kanji /
\* jmdict_kana row per writing with its common flag, one jmdict_sense row per
\* sense, one jmdict_sense_pos row per distinct part-of-speech code of a sense
\* (its tag has that code and category 'pos'), and one jmdict_gloss row per
\* gloss with its text and lang.
C21_OneRowPerElement ==
    (FirstLoadDone
       /\ \A a, b \in DOMAIN jm_file.words :
             a # b => jm_file.words[a].id # jm_file.words[b].id)
      => LET ws == jm_file.words
             ss == AllSenses(ws)
         IN /\ Cardinality(disk.jmdict_entries) = Len(ws)
            /\ \A k \in DOMAIN ws :
                  /\ \E r \in disk.jmdict_entries : r.id = ws[k].id
                  /\ WritingsStored(disk.jmdict_kanji, ws[k].id,
                                    Get(ws[k], "kanji", << >>))
                  /\ WritingsStored(disk.jmdict_kana, ws[k].id,
                                    Get(ws[k], "kana", << >>))
            /\ Cardinality(disk.jmdict_sense) = Len(ss)
            /\ \A k \in DOMAIN ss :
                  LET codes == Range(Get(ss[k].sense, "partOfSpeech", << >>))
                      pos == {r \in disk.jmdict_sense_pos : r.sense_id = k}
                      gs == Get(ss[k].sense, "gloss", << >>)
                      glosses == {r \in disk.jmdict_gloss : r.sense_id = k}
                  IN /\ \E r \in disk.jmdict_sense :
                           r.id = k /\ r.entry_id = ss[k].entry_id
                     /\ Cardinality(pos) = Cardinality(codes)
                     /\ \A c \in codes : \E r \in pos : \E t \in disk.tags :
                           t.id = r.tag_id /\ t.tag = c /\ t.category = "pos"
                     /\ Cardinality(glosses) = Len(gs)
                     /\ \A n \in DOMAIN gs :
                           Cardinality({r \in glosses : r.text = gs[n].text
                                                        /\ r.lang = gs[n].lang})
                             = Cardinality({m \in DOMAIN gs :
                                              gs[m].text = gs[n].text
                                              /\ gs[m].lang = gs[n].lang})

\* C21 witness: the entry with every kind of child and the kana-only entry
\* were loaded in one document.
C21_Witness ==
    /\ FirstLoadDone
    /\ jm_file.words = <<WordFull, WordKanaOnly>>
    /\ Cardinality(disk.jmdict_kana) = 3
    /\ Cardinality(disk.jmdict_sense_pos) = 4
    /\ Cardinality(disk.jmdict_gloss) = 4

\* C23: the k-th kana writing has, when it applies to all kanji, one
\* jmdict_kana_to_kanji row per distinct kanji text of its entry, and for an
\* explicit list one row per distinct listed text; every stored kanji_text is
\* the text of a kanji writing of the same entry.
C23_KanaAppliesToKanjiOfEntry ==
    FirstLoadDone
      => \A k \in DOMAIN AllKana(jm_file.words) :
            LET x == AllKana(jm_file.words)[k]
                kanjis == Get(x.word, "kanji", << >>)
                texts == {kanjis[n].text : n \in DOMAIN kanjis}
                listed == Get(x.kana, "appliesToKanji", <<"*">>)
                stored == {r.kanji_text :
                             r \in {y \in disk.jmdict_kana_to_kanji : y.kana_id = k}}
            IN /\ listed = <<"*">> => stored = texts
               /\ listed # <<"*">> => stored = Range(listed)
               /\ stored \subseteq texts

\* the description the document's tags map gives for a code
MapDescriptions(tags, code) ==
    {tags[k][2] : k \in {n \in DOMAIN tags : tags[n][1] = code}}

\* every row of a junction table references a tag of the category whose
\* description is the map's, when the map lists the code
JunctionDescribed(d, tags, table, category) ==
    \A r \in d[table] :
       \E t \in d.tags :
          /\ t.id = r.tag_id
          /\ t.category = category
          /\ \A text \in MapDescriptions(tags, t.tag) : t.description = text

\* C25: every row of jmdict_sense_pos / _field / _dialect / _misc references a
\* tags row of category 'pos' / 'field' / 'dialect' / 'misc' whose description
\* is the one the document's tags map gives for the code.
C25_JunctionTagsDescribed ==
    /\ JunctionDescribed(db, jm_file.tags, "jmdict_sense_pos", "pos")
    /\ JunctionDescribed(db, jm_file.tags, "jmdict_sense_field", "field")
    /\ JunctionDescribed(db, jm_file.tags, "jmdict_sense_dialect", "dialect")
    /\ JunctionDescribed(db, jm_file.tags, "jmdict_sense_misc", "misc")

\* C26: no step changes or removes a tags row, adds a row for a pair that has
\* one, caches another identifier for such a pair, or resolves such a pair to
\* another identifier.
C26_TagIdsStable ==
    [][\A r \in db.tags :
          /\ r \in db'.tags
          /\ \A x \in db'.tags :
                (x.tag = r.tag /\ x.category = r.category) => x = r
          /\ (<<r.tag, r.category>> \in DOMAIN tag_cache')
                => tag_cache'[<<r.tag, r.category>>] = r.id
          /\ \A a \in resolved' \ resolved :
                (a.tag = r.tag /\ a.category = r.category) => a.id = r.id]_vars

\* C26 witness: a second load by a new parser has resolved (exp, pos), a pair
\* the first load had created during a batch.
C26_Witness ==
    /\ Returned("load_jmdict", "ok")
    /\ Len(runs) = 2
    /\ runs[1].result = "ok"
    /\ jm_file.tags = FileTags
    /\ \E a \in resolved : a.tag = "exp" /\ a.category = "pos"
    /\ Cardinality({r \in db.tags : r.tag = "exp"}) = 1

\* C29: the k-th sense has no jmdict_sense_applies_to_kanji / _kana row when
\* its appliesToKanji / appliesToKana is ['*'] or absent, and exactly one row
\* per distinct listed text otherwise.
C29_SenseAppliesRows ==
    FirstLoadDone
      => LET ss == AllSenses(jm_file.words)
             holds(table, key, field) ==
                /\ \A r \in disk[table] : r.sense_id \in DOMAIN ss
                /\ \A k \in DOMAIN ss :
                      LET listed == Get(ss[k].sense, field, <<"*">>)
                          rows == {r \in disk[table] : r.sense_id = k}
                      IN IF listed = <<"*">> THEN rows = {}
                         ELSE /\ {r[key] : r \in rows} = Range(listed)
                              /\ Cardinality(rows) = Cardinality(Range(listed))
         IN /\ holds("jmdict_sense_applies_to_kanji", "kanji_text", "appliesToKanji")
            /\ holds("jmdict_sense_applies_to_kana", "kana_text", "appliesToKana")

\* C29 witness: senses with a one-element list, a list with a repeated text,
\* an empty list, ['*'] and no list were loaded.
C29_Witness ==
    /\ FirstLoadDone
    /\ jm_file.words = <<WordFull, WordTwin>>
    /\ Cardinality(disk.jmdict_sense_applies_to_kanji) = 1
    /\ Cardinality(disk.jmdict_sense_applies_to_kana) = 2

\* C30: every entry of tag_cache is a row of table tags as the connection
\* sees it: the row with that id has that tag and category.
C30_CacheAgreesWithStorage ==
    \A key \in DOMAIN tag_cache :
       \E r \in db.tags :
          r.id = tag_cache[key] /\ r.tag = key[1] /\ r.category = key[2]

\* C30 witness: a batch after the first has raised after it had created and
\* cached the tags of its sense.
C30_Witness ==
    /\ pc = "jm_raised"
    /\ i > 0
    /\ <<"arch", "misc">> \in DOMAIN tag_cache
    /\ <<"adv", "pos">> \in DOMAIN tag_cache
\* the step is a full-text rebuild that names a table that does not exist
RebuildOfMissing ==
    \/ /\ pc = "jm_parsed"
       /\ db.virtual # FtsTables
    \/ /\ pc = "kd_parsed"
       /\ NoSuchTable(db, "kanjidic_meanings_fts")
    \/ /\ pc = "idle"
       /\ conn
       /\ db.virtual # FtsTables
       /\ pc' = "idle"
       /\ last' = "rebuild_fts_index"

\* C22: a full-text rebuild invoked while a full-text table is missing does
\* not raise and does not abort the load; it is reported as a warning.
C22_MissingTableWarned ==
    [][RebuildOfMissing => result' = "warned"]_vars

\* C28: while the loader has no connection nothing changes the database and
\* every call of load_jmdict, load_kanjidic or optimize_database returns by
\* raising ValueError; once it has a connection none of them raises it.
C28_GuardedByInitialize ==
    [][/\ (~conn /\ ~conn') =>
             /\ db' = db
             /\ disk' = disk
             /\ pc' = pc
             /\ <<last', result'>> # <<last, result>> =>
                   /\ last' \in {"load_jmdict", "load_kanjidic", "optimize_database"}
                   /\ result' = "ValueError"
       /\ conn => result' # "ValueError"]_vars

\* C28 witness: optimize_database has raised ValueError on a loader that was
\* never initialized, and there is still no database.
C28_Witness ==
    /\ ~conn
    /\ last = "optimize_database"
    /\ result = "ValueError"
    /\ db = NoDatabase
    /\ disk = NoDatabase
\* the entities of the document the latest parse_file read
ParseInput ==
    IF handed.of = "jmdict" THEN jm_file.words ELSE kd_file.characters

\* ceil(n / size)
Ceil(n, size) ==
    (n + size - 1) \div size

\* the batches handed over are, in order, the contiguous pieces of size
\* batch_size of the input, the last one possibly shorter
ContiguousBatches ==
    /\ Len(handed.batches) <= Ceil(Len(ParseInput), batch_size)
    /\ \A k \in DOMAIN handed.batches :
          handed.batches[k] = SubSeq(ParseInput, (k - 1) * batch_size + 1,
                                     Min(k * batch_size, Len(ParseInput)))

====
